---- MODULE Spec2Model ----
(***************************************************************************)
(* A model of two components of the GPU back end:                          *)
(*                                                                         *)
(*   - skgpu::mtl::RenderCommandEncoder                                    *)
(*       (experimental/graphite/src/mtl/MtlRenderCommandEncoder.h), a      *)
(*       wrapper around one native MTLRenderCommandEncoder that caches the *)
(*       last pipeline state, depth/stencil state, fill mode and scissor   *)
(*       rectangle it forwarded;                                           *)
(*   - GrVertexWriter (src/gpu/GrVertexWriter.h), a bump cursor over       *)
(*       caller-owned memory.                                              *)
(*                                                                         *)
(* EncoderSpec drives one encoder and PairSpec two; WriterSpec, ColorSpec,  *)
(* MarkerSpec and QuadSpec drive the vertex writer on plain fields, color  *)
(* records, conditionals and skips, and quads; CursorSpec drives every     *)
(* operation that moves or derives a cursor, MoveSpec the moves of the     *)
(* cursor between writer objects.                                          *)
(***************************************************************************)
EXTENDS Integers, Sequences, FiniteSets, TLC

VARIABLES
    \* ---- RenderCommandEncoder, one set of members per session ----
    fCurrentRenderPipelineState,  \* [Sessions -> id<MTLRenderPipelineState>]
    fCurrentDepthStencilState,    \* [Sessions -> id<MTLDepthStencilState>]
    fCurrentScissorRect,          \* [Sessions -> MTLScissorRect]
    fCurrentTriangleFillMode,     \* [Sessions -> MTLTriangleFillMode]
    fCommandEncoder,              \* [Sessions -> the number of retained
                                  \* references the member holds on the
                                  \* native encoder]
    \* ---- the native encoder behind fCommandEncoder, per session ----
    mtlState,                     \* what the native encoder currently holds
    mtlCalls,                     \* the native calls it received, in order
    mtlEnded,                     \* TRUE once it received endEncoding
    issued,                       \* the native calls made by the most recent
                                  \* call on a session (<<>>: none was made)
    \* ---- history of the caller's calls ----
    lastCall,                     \* the most recent call on a session
    lastSet,                      \* per session and kind, the value of the
                                  \* caller's most recent set call (<<>>: none)
    \* ---- GrVertexWriter ----
    fPtr,                         \* the cursor: an address, 0 is nullptr
    mem,                          \* the caller-owned memory, byte by byte
    others,                       \* fPtr of the further GrVertexWriter
                                  \* objects of the caller, by name
    \* ---- history of the calls on the writer ----
    wStart,                       \* the address the writer was constructed on
    wLast,                        \* the most recent call on the writer
    wPlain,                       \* TRUE while only plain values and fixed
                                  \* arrays have been written
    wSum                          \* the sum of the sizes of those fields

encVars == <<fCurrentRenderPipelineState, fCurrentDepthStencilState,
             fCurrentScissorRect, fCurrentTriangleFillMode, fCommandEncoder,
             mtlState, mtlCalls, mtlEnded, issued, lastCall, lastSet>>

writerVars == <<fPtr, mem, others, wStart, wLast, wPlain, wSum>>

vars == <<encVars, writerVars>>

(***************************************************************************)
(* Bounds of the model.                                                    *)
(***************************************************************************)
\* Native calls one session may receive before the model stops driving it.
MaxCalls == 2

\* Bytes of caller-owned memory, at addresses 1..MemSize.
MemSize == 40

\* Arguments of one variadic write call.
MaxArgs == 2

\* Elements of the array handed to writeArray.
MaxCount == 2

\* Bytes of room behind the start address of a writer of plain fields.
PlainRoom == 8

\* Bytes of room behind the start address of a writer of color records.
ColorRoom == 20

\* Bytes of caller-owned memory before the start address of a writer.
RewindRoom == 2

\* Bytes of room behind the start address of a writer of quads.
QuadRoom == 40

(***************************************************************************)
(* Values.                                                                 *)
(***************************************************************************)
\* Objective-C nil.
Nil == 0

\* Sessions (RenderCommandEncoder instances).
Sessions == {1, 2}

\* id<MTLRenderPipelineState> values a caller can pass: nil or an object.
PipelineStates == {Nil, 1, 2}

\* id<MTLDepthStencilState> values a caller can pass: nil or an object.
DepthStencilStates == {Nil, 1}

\* MTLTriangleFillModeFill = 0, MTLTriangleFillModeLines = 1.
FillModes == {0, 1}

\* (MTLTriangleFillMode)-1, the initial value of fCurrentTriangleFillMode.
\* MTLTriangleFillMode is an NSUInteger enum, so the value is the all-ones
\* word; it is written -1 here as in the source and only ever compared.
kUnsetFillMode == -1

Rect(x, y, w, h) == [x |-> x, y |-> y, width |-> w, height |-> h]

\* The initial value of fCurrentScissorRect.
ZeroRect == Rect(0, 0, 0, 0)

\* Scissor rectangles a caller can pass: a base rectangle, one variant per
\* field that differs from it in that field alone, and the empty rectangle.
ScissorRects ==
    { Rect(0, 0, 100, 100), Rect(1, 0, 100, 100), Rect(0, 1, 100, 100),
      Rect(0, 0, 50, 100), Rect(0, 0, 100, 50), ZeroRect }

\* The scissor rectangle a fresh native encoder holds: the render target's.
TargetRects == { Rect(0, 0, 100, 100), Rect(0, 0, 50, 100) }

RectArgs(r) == <<r.x, r.y, r.width, r.height>>

\* Arguments of the uncached operations. Each is opaque to the wrapper and
\* only forwarded; the components of one argument list are pairwise distinct
\* where the types allow it, so that a permuted forward is visible.
Labels == {7}                                   \* NSString*
Windings == {1}                                 \* MTLWindingCounterClockwise
Viewports == {<<0, 1, 100, 50, 2, 3>>}          \* MTLViewport
StencilRefs == {255}
StencilRefPairs == {<<1, 255>>}                 \* front, back
ByteUploads == {<<9, 16, 2>>}                   \* bytes, length, index

\* Argument lists of the draw calls, per overload.
DrawArgs == {<<3, 0, 4>>, <<4, 2, 6>>}
DrawInstancedArgs == {<<3, 0, 4, 2, 1>>}
DrawIndirectArgs == {<<3, 5, 64>>}
DrawIndexedArgs == {<<3, 6, 1, 5, 12>>}
DrawIndexedInstancedArgs == {<<3, 6, 1, 5, 12, 2, 4, 7>>}
DrawIndexedIndirectArgs == {<<3, 1, 5, 12, 8, 64>>}

(***************************************************************************)
(* The native encoder, calls on fCommandEncoder.                           *)
(***************************************************************************)
NativeCall(op, args) == [op |-> op, args |-> args]

\* The effect of one native call on the state the native encoder holds.
MtlApply(st, op, args) ==
    CASE op = "setRenderPipelineState" -> [st EXCEPT !.pso = args[1]]
      [] op = "setDepthStencilState"   -> [st EXCEPT !.dss = args[1]]
      [] op = "setTriangleFillMode"    -> [st EXCEPT !.fill = args[1]]
      [] op = "setScissorRect"         ->
            [st EXCEPT !.scissor = Rect(args[1], args[2], args[3], args[4])]
      [] OTHER                         -> st

\* A call op(args) on fCommandEncoder: the native encoder of session s receives
\* one call.
Forward(s, op, args) ==
    /\ mtlCalls' = [mtlCalls EXCEPT ![s] = Append(@, NativeCall(op, args))]
    /\ mtlState' = [mtlState EXCEPT ![s] = MtlApply(@, op, args)]
    /\ mtlEnded' = [mtlEnded EXCEPT ![s] = @ \/ op = "endEncoding"]
    /\ issued' = <<NativeCall(op, args)>>

\* A branch that reaches no native call.
NoForward ==
    /\ UNCHANGED <<mtlCalls, mtlState, mtlEnded>>
    /\ issued' = <<>>

\* History: the caller called op(args) on session s. No method assigns
\* fCommandEncoder, and the encoder and the vertex writer do not call each
\* other: no encoder method touches a writer.
Called(s, op, args) ==
    /\ lastCall' = [session |-> s, op |-> op, args |-> args]
    /\ UNCHANGED fCommandEncoder
    /\ UNCHANGED writerVars

\* The model drives a session until its native encoder holds MaxCalls calls:
\* a call that would hand it one more is not made.
CanCall(s) == Len(mtlCalls[s]) < MaxCalls

cacheVars == <<fCurrentRenderPipelineState, fCurrentDepthStencilState,
               fCurrentScissorRect, fCurrentTriangleFillMode>>

(***************************************************************************)
(* Construction.                                                           *)
(***************************************************************************)
\* RenderCommandEncoder::Make and the member initialisers: sk_ret_cfp retains
\* the native encoder once and the constructor moves that reference into
\* fCommandEncoder; the sessions of one pass render to one target.
EncoderInit(targets) ==
    /\ fCurrentRenderPipelineState = [s \in Sessions |-> Nil]
    /\ fCurrentDepthStencilState = [s \in Sessions |-> Nil]
    /\ fCurrentScissorRect = [s \in Sessions |-> ZeroRect]
    /\ fCurrentTriangleFillMode = [s \in Sessions |-> kUnsetFillMode]
    /\ fCommandEncoder = [s \in Sessions |-> 1]
    /\ \E r \in targets :
          mtlState = [s \in Sessions |->
                        [pso |-> Nil, dss |-> Nil, fill |-> 0, scissor |-> r]]
    /\ mtlCalls = [s \in Sessions |-> <<>>]
    /\ mtlEnded = [s \in Sessions |-> FALSE]
    /\ issued = <<>>
    /\ lastCall = [session |-> 0, op |-> "Make", args |-> <<>>]
    /\ lastSet = [s \in Sessions |->
                    [pso |-> <<>>, dss |-> <<>>, fill |-> <<>>, scissor |-> <<>>]]

(***************************************************************************)
(* Uncached operations: the body is one native call.                       *)
(***************************************************************************)
\* What every method whose body is a single forwarded call leaves alone.
Uncached(s, op, args) ==
    /\ CanCall(s)
    /\ Called(s, op, args)
    /\ UNCHANGED <<cacheVars, lastSet>>

setLabel(s, label) ==
    /\ Forward(s, "setLabel", <<label>>)
    /\ Uncached(s, "setLabel", <<label>>)

pushDebugGroup(s, string) ==
    /\ Forward(s, "pushDebugGroup", <<string>>)
    /\ Uncached(s, "pushDebugGroup", <<string>>)

popDebugGroup(s) ==
    /\ Forward(s, "popDebugGroup", <<>>)
    /\ Uncached(s, "popDebugGroup", <<>>)

insertDebugSignpost(s, string) ==
    /\ Forward(s, "insertDebugSignpost", <<string>>)
    /\ Uncached(s, "insertDebugSignpost", <<string>>)

setFrontFacingWinding(s, winding) ==
    /\ Forward(s, "setFrontFacingWinding", <<winding>>)
    /\ Uncached(s, "setFrontFacingWinding", <<winding>>)

\* A viewport treated like the scissor rectangle: skipped when repeated.
setViewport_Cached(s, viewport) ==
    /\ IF lastCall = [session |-> s, op |-> "setViewport", args |-> viewport]
          THEN NoForward
          ELSE Forward(s, "setViewport", viewport)
    /\ Uncached(s, "setViewport", viewport)

setViewport(s, viewport) ==
    /\ Forward(s, "setViewport", viewport)
    /\ Uncached(s, "setViewport", viewport)

setVertexBytes(s, upload) ==
    /\ Forward(s, "setVertexBytes", upload)
    /\ Uncached(s, "setVertexBytes", upload)

setFragmentBytes(s, upload) ==
    /\ Forward(s, "setFragmentBytes", upload)
    /\ Uncached(s, "setFragmentBytes", upload)

setStencilFrontBackReferenceValues(s, front, back) ==
    /\ Forward(s, "setStencilFrontBackReferenceValues", <<front, back>>)
    /\ Uncached(s, "setStencilFrontBackReferenceValues", <<front, back>>)

setStencilReferenceValue(s, referenceValue) ==
    /\ Forward(s, "setStencilReferenceValue", <<referenceValue>>)
    /\ Uncached(s, "setStencilReferenceValue", <<referenceValue>>)

\* drawPrimitives(primitiveType, vertexStart, vertexCount)
drawPrimitives(s, a) ==
    /\ Forward(s, "drawPrimitives", a)
    /\ Uncached(s, "drawPrimitives", a)

\* drawPrimitives(primitiveType, vertexStart, vertexCount, instanceCount,
\*                baseInstance)
drawPrimitivesInstanced(s, a) ==
    /\ Forward(s, "drawPrimitivesInstanced", a)
    /\ Uncached(s, "drawPrimitivesInstanced", a)

\* drawPrimitives(primitiveType, indirectBuffer, indirectBufferOffset)
drawPrimitivesIndirect(s, a) ==
    /\ Forward(s, "drawPrimitivesIndirect", a)
    /\ Uncached(s, "drawPrimitivesIndirect", a)

\* drawIndexedPrimitives(primitiveType, indexCount, indexType, indexBuffer,
\*                       indexBufferOffset)
drawIndexedPrimitives(s, a) ==
    /\ Forward(s, "drawIndexedPrimitives", a)
    /\ Uncached(s, "drawIndexedPrimitives", a)

\* drawIndexedPrimitives(..., instanceCount, baseVertex, baseInstance)
drawIndexedPrimitivesInstanced(s, a) ==
    /\ Forward(s, "drawIndexedPrimitivesInstanced", a)
    /\ Uncached(s, "drawIndexedPrimitivesInstanced", a)

\* drawIndexedPrimitives(primitiveType, indexType, indexBuffer,
\*                       indexBufferOffset, indirectBuffer, indirectBufferOffset)
drawIndexedPrimitivesIndirect(s, a) ==
    /\ Forward(s, "drawIndexedPrimitivesIndirect", a)
    /\ Uncached(s, "drawIndexedPrimitivesIndirect", a)

\* An endEncoding that puts the cache back to its initial values.
endEncoding_ClearsCache(s) ==
    /\ Forward(s, "endEncoding", <<>>)
    /\ CanCall(s)
    /\ Called(s, "endEncoding", <<>>)
    /\ fCurrentRenderPipelineState' =
           [fCurrentRenderPipelineState EXCEPT ![s] = Nil]
    /\ fCurrentDepthStencilState' = [fCurrentDepthStencilState EXCEPT ![s] = Nil]
    /\ fCurrentScissorRect' = [fCurrentScissorRect EXCEPT ![s] = ZeroRect]
    /\ fCurrentTriangleFillMode' =
           [fCurrentTriangleFillMode EXCEPT ![s] = kUnsetFillMode]
    /\ UNCHANGED lastSet

\* endEncoding forwards and changes no member of the wrapper.
endEncoding(s) ==
    /\ Forward(s, "endEncoding", <<>>)
    /\ Uncached(s, "endEncoding", <<>>)

(***************************************************************************)
(* Cached operations: compare with the member, forward and store on a      *)
(* difference.                                                             *)
(***************************************************************************)
\* fCurrentRenderPipelineState != pso (pointer identity)
PipelineStateDiffers(current, pso) == current # pso

\* A pipeline cache shared by all sessions, as a static member would be.
setRenderPipelineState_Shared(s, pso) ==
    /\ IF PipelineStateDiffers(fCurrentRenderPipelineState[s], pso)
          THEN /\ CanCall(s)
               /\ Forward(s, "setRenderPipelineState", <<pso>>)
               /\ fCurrentRenderPipelineState' = [t \in Sessions |-> pso]
          ELSE /\ NoForward
               /\ UNCHANGED fCurrentRenderPipelineState
    /\ Called(s, "setRenderPipelineState", <<pso>>)
    /\ lastSet' = [lastSet EXCEPT ![s].pso = <<pso>>]
    /\ UNCHANGED <<fCurrentDepthStencilState, fCurrentScissorRect,
                   fCurrentTriangleFillMode>>

setRenderPipelineState(s, pso) ==
    /\ IF PipelineStateDiffers(fCurrentRenderPipelineState[s], pso)
          THEN /\ CanCall(s)
               /\ Forward(s, "setRenderPipelineState", <<pso>>)
               /\ fCurrentRenderPipelineState' =
                      [fCurrentRenderPipelineState EXCEPT ![s] = pso]
          ELSE /\ NoForward
               /\ UNCHANGED fCurrentRenderPipelineState
    /\ Called(s, "setRenderPipelineState", <<pso>>)
    /\ lastSet' = [lastSet EXCEPT ![s].pso = <<pso>>]
    /\ UNCHANGED <<fCurrentDepthStencilState, fCurrentScissorRect,
                   fCurrentTriangleFillMode>>

\* fCurrentTriangleFillMode != fillMode
FillModeDiffers(current, fillMode) == current # fillMode

setTriangleFillMode(s, fillMode) ==
    /\ IF FillModeDiffers(fCurrentTriangleFillMode[s], fillMode)
          THEN /\ CanCall(s)
               /\ Forward(s, "setTriangleFillMode", <<fillMode>>)
               /\ fCurrentTriangleFillMode' =
                      [fCurrentTriangleFillMode EXCEPT ![s] = fillMode]
          ELSE /\ NoForward
               /\ UNCHANGED fCurrentTriangleFillMode
    /\ Called(s, "setTriangleFillMode", <<fillMode>>)
    /\ lastSet' = [lastSet EXCEPT ![s].fill = <<fillMode>>]
    /\ UNCHANGED <<fCurrentRenderPipelineState, fCurrentDepthStencilState,
                   fCurrentScissorRect>>

\* depthStencilState != fCurrentDepthStencilState (pointer identity)
DepthStencilStateDiffers(current, depthStencilState) ==
    depthStencilState # current

\* A setter that forwards and forgets to store what it forwarded.
setDepthStencilState_NoStore(s, depthStencilState) ==
    /\ IF DepthStencilStateDiffers(fCurrentDepthStencilState[s],
                                   depthStencilState)
          THEN /\ CanCall(s)
               /\ Forward(s, "setDepthStencilState", <<depthStencilState>>)
          ELSE NoForward
    /\ Called(s, "setDepthStencilState", <<depthStencilState>>)
    /\ lastSet' = [lastSet EXCEPT ![s].dss = <<depthStencilState>>]
    /\ UNCHANGED cacheVars

setDepthStencilState(s, depthStencilState) ==
    /\ IF DepthStencilStateDiffers(fCurrentDepthStencilState[s],
                                   depthStencilState)
          THEN /\ CanCall(s)
               /\ Forward(s, "setDepthStencilState", <<depthStencilState>>)
               /\ fCurrentDepthStencilState' =
                      [fCurrentDepthStencilState EXCEPT ![s] = depthStencilState]
          ELSE /\ NoForward
               /\ UNCHANGED fCurrentDepthStencilState
    /\ Called(s, "setDepthStencilState", <<depthStencilState>>)
    /\ lastSet' = [lastSet EXCEPT ![s].dss = <<depthStencilState>>]
    /\ UNCHANGED <<fCurrentRenderPipelineState, fCurrentScissorRect,
                   fCurrentTriangleFillMode>>

\* A comparison that forgets the height.
ScissorRectDiffers_NoHeight(current, scissorRect) ==
    \/ current.x # scissorRect.x
    \/ current.y # scissorRect.y
    \/ current.width # scissorRect.width

\* The four-field comparison of setScissorRect.
ScissorRectDiffers(current, scissorRect) ==
    \/ current.x # scissorRect.x
    \/ current.y # scissorRect.y
    \/ current.width # scissorRect.width
    \/ current.height # scissorRect.height

setScissorRect(s, scissorRect) ==
    /\ IF ScissorRectDiffers(fCurrentScissorRect[s], scissorRect)
          THEN /\ CanCall(s)
               /\ Forward(s, "setScissorRect", RectArgs(scissorRect))
               /\ fCurrentScissorRect' =
                      [fCurrentScissorRect EXCEPT ![s] = scissorRect]
          ELSE /\ NoForward
               /\ UNCHANGED fCurrentScissorRect
    /\ Called(s, "setScissorRect", RectArgs(scissorRect))
    /\ lastSet' = [lastSet EXCEPT ![s].scissor = <<scissorRect>>]
    /\ UNCHANGED <<fCurrentRenderPipelineState, fCurrentDepthStencilState,
                   fCurrentTriangleFillMode>>

(***************************************************************************)
(* The encoder's next-state relation.                                      *)
(***************************************************************************)
EncoderStep(s) ==
        \/ \E l \in Labels : setLabel(s, l)
        \/ \E l \in Labels : pushDebugGroup(s, l)
        \/ popDebugGroup(s)
        \/ \E l \in Labels : insertDebugSignpost(s, l)
        \/ \E pso \in PipelineStates : setRenderPipelineState(s, pso)
        \/ \E m \in FillModes : setTriangleFillMode(s, m)
        \/ \E w \in Windings : setFrontFacingWinding(s, w)
        \/ \E v \in Viewports : setViewport(s, v)
        \/ \E u \in ByteUploads : setVertexBytes(s, u)
        \/ \E u \in ByteUploads : setFragmentBytes(s, u)
        \/ \E p \in StencilRefPairs :
               setStencilFrontBackReferenceValues(s, p[1], p[2])
        \/ \E r \in StencilRefs : setStencilReferenceValue(s, r)
        \/ \E d \in DepthStencilStates : setDepthStencilState(s, d)
        \/ \E r \in ScissorRects : setScissorRect(s, r)
        \/ \E a \in DrawArgs : drawPrimitives(s, a)
        \/ \E a \in DrawInstancedArgs : drawPrimitivesInstanced(s, a)
        \/ \E a \in DrawIndirectArgs : drawPrimitivesIndirect(s, a)
        \/ \E a \in DrawIndexedArgs : drawIndexedPrimitives(s, a)
        \/ \E a \in DrawIndexedInstancedArgs :
               drawIndexedPrimitivesInstanced(s, a)
        \/ \E a \in DrawIndexedIndirectArgs :
               drawIndexedPrimitivesIndirect(s, a)
        \/ endEncoding(s)

\* One session.
EncoderNext == EncoderStep(1)

\* Two sessions of one pass: the cached setters and a draw on either.
PairNext ==
    \E s \in Sessions :
        \/ \E pso \in {Nil, 1} : setRenderPipelineState(s, pso)
        \/ \E m \in {0} : setTriangleFillMode(s, m)
        \/ \E d \in {1} : setDepthStencilState(s, d)
        \/ \E r \in TargetRects : setScissorRect(s, r)
        \/ \E a \in {<<3, 0, 4>>} : drawPrimitives(s, a)

(***************************************************************************)
(* GrVertexWriter: values.                                                 *)
(***************************************************************************)
\* A value is its object representation, a sequence of bytes; sizeof is its
\* length. Memory the writer never touched holds byte 0, and no value below
\* contains a 0 byte or shares a byte with another value.
Sizeof(val) == Len(val)

U8Values == {<<17>>}                             \* a uint8_t
U16Values == {<<33, 34>>}                        \* a uint16_t
F32Values == {<<49, 50, 51, 52>>}                \* a float
U16Array == << <<65, 66>>, <<67, 68>>, <<69, 70>> >>

\* GrVertexColor::fColor, four words.
ColorWords == << <<129, 130, 131, 132>>, <<133, 134, 135, 136>>,
                 <<137, 138, 139, 140>>, <<141, 142, 143, 144>> >>

\* The arguments of write, by overload.
Pod(val) == [kind |-> "pod", elems |-> <<val>>, flag |-> FALSE]
FixedArray(elems) == [kind |-> "array", elems |-> elems, flag |-> FALSE]
VertexColor(fColor, fWideColor) ==
    [kind |-> "color", elems |-> fColor, flag |-> fWideColor]

\* If(condition, value) of a plain value, and Skip<T>; T is given by any
\* value of the type, of which only the size is used.
If(condition, value) == [kind |-> "cond", elems |-> <<value>>, flag |-> condition]
Skip(T) == [kind |-> "skip", elems |-> <<T>>, flag |-> FALSE]

\* The arguments writeQuad expands per corner: TriStrip<T>{l, t, r, b},
\* TriFan<T>{l, t, r, b} and a GrQuad, given by its four points.
TriStrip(l, t, r, b) ==
    [kind |-> "tristrip", elems |-> <<l, t, r, b>>, flag |-> FALSE]
TriFan(l, t, r, b) ==
    [kind |-> "trifan", elems |-> <<l, t, r, b>>, flag |-> FALSE]
GrQuad(points) == [kind |-> "quad", elems |-> points, flag |-> FALSE]

\* GrQuad::point(i): an SkPoint, two floats.
point(q, i) == q[i + 1]

\* A quad with four different points.
QuadPoints ==
    [i \in 1..4 |-> [j \in 1..8 |-> 90 + 10 * i + j]]

PlainArgs ==
    {Pod(v) : v \in U8Values \cup U16Values \cup F32Values}
        \cup {FixedArray(SubSeq(U16Array, 1, 2))}          \* uint16_t[2]
ColorArgs == {VertexColor(ColorWords, w) : w \in BOOLEAN}
CornerKinds == {"tristrip", "trifan", "quad"}

\* The argument lists of writeQuad: the rectangle (l=0, t=0, r=10, b=20) of
\* uint8_t under both layouts, a GrQuad, and records that mix a rectangle of
\* four different coordinates with fields written alike at every corner.
QuadArgLists ==
    { <<TriStrip(<<0>>, <<0>>, <<10>>, <<20>>)>>,
      <<TriFan(<<0>>, <<0>>, <<10>>, <<20>>)>>,
      <<GrQuad(QuadPoints)>>,
      <<TriStrip(<<81>>, <<82>>, <<83>>, <<84>>), VertexColor(ColorWords, FALSE)>>,
      <<If(TRUE, <<17>>), TriFan(<<81>>, <<82>>, <<83>>, <<84>>), Skip(<<17>>)>>,
      <<If(FALSE, <<17>>), TriStrip(<<0>>, <<0>>, <<10>>, <<20>>),
        Pod(<<33, 34>>)>>,
      <<Pod(<<17>>), TriFan(<<0>>, <<0>>, <<10>>, <<20>>), Pod(<<17>>)>> }
MarkerArgs ==
    {If(c, <<49, 50, 51, 52>>) : c \in BOOLEAN}
        \cup {Skip(<<33, 34>>), Pod(<<17>>)}

\* The argument lists of one variadic write call over the values S, write()
\* included.
ArgLists(S) == UNION {[1..n -> S] : n \in 0..MaxArgs}

\* Addresses the caller constructs a writer on: with room for a few plain
\* fields, and with room for wide colors.
PlainStarts == {MemSize - PlainRoom + 1, MemSize - PlainRoom + 2}
ColorStarts == {MemSize - ColorRoom + 1, MemSize - ColorRoom + 3}
QuadStarts == {MemSize - QuadRoom + 1}

Addrs == 1..MemSize

\* A null cursor: the value operator bool tests against.
Nullptr == 0

\* The names of the further writer objects, and the mark of a name that
\* holds no object (not constructed yet).
OtherWriters == {1, 2}
NoObject == -1

\* Memory nothing has been written to, and memory that still holds what an
\* earlier pass left in it (byte 200 + a at address a).
ZeroedMem == [a \in Addrs |-> 0]
StaleMem == [a \in Addrs |-> 200 + a]

(***************************************************************************)
(* GrVertexWriter: the write overloads, as functions of the writer's state *)
(* st = [ptr, mem].                                                        *)
(***************************************************************************)
\* SkTAddOffset<void>(ptr, byteOffset)
SkTAddOffset(ptr, byteOffset) == ptr + byteOffset

\* memcpy(dst, src, n) on memory m; src is a sequence of at least n bytes.
Memcpy(m, dst, src, n) ==
    [a \in DOMAIN m |->
        IF a >= dst /\ a < dst + n THEN src[a - dst + 1] ELSE m[a]]

\* The bytes of an array's elements, in order.
RECURSIVE Flatten(_)
Flatten(elems) ==
    IF elems = <<>> THEN <<>> ELSE Head(elems) \o Flatten(Tail(elems))

\* A write that pads every field to a multiple of four bytes.
WritePod_Padded(st, val) ==
    [ptr |-> SkTAddOffset(st.ptr, 4 * ((Sizeof(val) + 3) \div 4)),
     mem |-> Memcpy(st.mem, st.ptr, val, Sizeof(val))]

\* write(const T& val): memcpy sizeof(T) bytes, advance by sizeof(T).
WritePod(st, val) ==
    [ptr |-> SkTAddOffset(st.ptr, Sizeof(val)),
     mem |-> Memcpy(st.mem, st.ptr, val, Sizeof(val))]

\* write(const T(&val)[N]): memcpy N * sizeof(T) bytes, advance by as much.
WriteFixedArray(st, elems) ==
    LET n == Len(elems) * Sizeof(elems[1])
    IN  [ptr |-> SkTAddOffset(st.ptr, n),
         mem |-> Memcpy(st.mem, st.ptr, Flatten(elems), n)]

\* A color write that ignores fWideColor and always writes four words.
WriteColor_AlwaysWide(st, fColor, fWideColor) ==
    WritePod(WritePod(WritePod(WritePod(st, fColor[1]), fColor[2]), fColor[3]),
             fColor[4])

\* write(const GrVertexColor& color): fColor[0], then fColor[1..3] if wide.
WriteColor(st, fColor, fWideColor) ==
    LET first == WritePod(st, fColor[1])
    IN  IF fWideColor
          THEN WritePod(WritePod(WritePod(first, fColor[2]), fColor[3]),
                        fColor[4])
          ELSE first

\* A conditional that reserves the field when the condition is false.
WriteConditional_Reserves(st, fValue, fCondition) ==
    IF fCondition
      THEN WritePod(st, fValue)
      ELSE [st EXCEPT !.ptr = SkTAddOffset(st.ptr, Sizeof(fValue))]

\* write(const Conditional<T>& val): write(val.fValue) if val.fCondition.
WriteConditional(st, fValue, fCondition) ==
    IF fCondition THEN WritePod(st, fValue) ELSE st

\* A skip that clears the bytes it passes.
WriteSkip_Clears(st, T) ==
    WritePod(st, [j \in 1..Sizeof(T) |-> 0])

\* write(const Skip<T>& val): advance by sizeof(T), no memcpy.
WriteSkip(st, T) ==
    [st EXCEPT !.ptr = SkTAddOffset(st.ptr, Sizeof(T))]

\* Overload resolution on one argument.
WriteOne(st, arg) ==
    CASE arg.kind = "pod"   -> WritePod(st, arg.elems[1])
      [] arg.kind = "array" -> WriteFixedArray(st, arg.elems)
      [] arg.kind = "color" -> WriteColor(st, arg.elems, arg.flag)
      [] arg.kind = "cond"  -> WriteConditional(st, arg.elems[1], arg.flag)
      [] arg.kind = "skip"  -> WriteSkip(st, arg.elems[1])

\* A recursion that writes the remainder before the first argument.
RECURSIVE WriteArgs_RemainderFirst(_, _)
WriteArgs_RemainderFirst(st, args) ==
    IF args = <<>> THEN st
    ELSE WriteOne(WriteArgs_RemainderFirst(st, Tail(args)), Head(args))

\* write(val, remainder...): the first argument, then the remainder; write()
\* ends the recursion.
RECURSIVE WriteArgs(_, _)
WriteArgs(st, args) ==
    IF args = <<>> THEN st ELSE WriteArgs(WriteOne(st, Head(args)), Tail(args))

\* The outcomes of a memcpy to dst whose length, a negative count converted
\* to size_t, exceeds every destination: the call does not return (no step),
\* or it returns with the memory as it was or with everything from dst on
\* overwritten by src and by what lies behind src (byte 255).
MemcpyOverrun(m, dst, src) ==
    { m,
      [a \in DOMAIN m |->
          IF a < dst THEN m[a]
          ELSE IF a - dst + 1 <= Len(src) THEN src[a - dst + 1] ELSE 255] }

\* fill(const T& val, int repeatCount): for (i = 0; i < repeatCount; ++i)
\* write(val).
RECURSIVE Fill(_, _, _, _)
Fill(st, val, i, repeatCount) ==
    IF i < repeatCount THEN Fill(WriteOne(st, val), val, i + 1, repeatCount)
    ELSE st

\* writeRaw(const void* data, size_t size): memcpy size bytes, advance by size.
WriteRaw(st, data, size) ==
    [ptr |-> SkTAddOffset(st.ptr, size),
     mem |-> Memcpy(st.mem, st.ptr, data, size)]

\* makeOffset(ptrdiff_t offsetInBytes): the cursor of the writer returned.
MakeOffset(ptr, offsetInBytes) == SkTAddOffset(ptr, offsetInBytes)

\* writeQuadValue<corner>(const TriStrip<T>& r)
WriteTriStrip(st, corner, r) ==
    CASE corner = 0 -> WriteArgs(st, <<Pod(r[1]), Pod(r[2])>>)
      [] corner = 1 -> WriteArgs(st, <<Pod(r[1]), Pod(r[4])>>)
      [] corner = 2 -> WriteArgs(st, <<Pod(r[3]), Pod(r[2])>>)
      [] corner = 3 -> WriteArgs(st, <<Pod(r[3]), Pod(r[4])>>)

\* A fan written in the order of a strip.
WriteTriFan_StripOrder(st, corner, r) == WriteTriStrip(st, corner, r)

\* writeQuadValue<corner>(const TriFan<T>& r)
WriteTriFan(st, corner, r) ==
    CASE corner = 0 -> WriteArgs(st, <<Pod(r[1]), Pod(r[2])>>)
      [] corner = 1 -> WriteArgs(st, <<Pod(r[1]), Pod(r[4])>>)
      [] corner = 2 -> WriteArgs(st, <<Pod(r[3]), Pod(r[4])>>)
      [] corner = 3 -> WriteArgs(st, <<Pod(r[3]), Pod(r[2])>>)

\* writeQuadValue<corner>(val), by overload.
WriteQuadValue(st, corner, arg) ==
    CASE arg.kind = "tristrip" -> WriteTriStrip(st, corner, arg.elems)
      [] arg.kind = "trifan"   -> WriteTriFan(st, corner, arg.elems)
      [] arg.kind = "quad"     -> WritePod(st, point(arg.elems, corner))
      [] OTHER                 -> WriteOne(st, arg)

\* writeQuadVert<corner>(val, remainder...)
RECURSIVE WriteQuadVert(_, _, _)
WriteQuadVert(st, corner, args) ==
    IF args = <<>> THEN st
    ELSE WriteQuadVert(WriteQuadValue(st, corner, Head(args)), corner,
                       Tail(args))

\* A quad written as two triangles: corners 0, 1, 2 and 2, 1, 3.
WriteQuad_TwoTriangles(st, args) ==
    LET tri == WriteQuadVert(WriteQuadVert(WriteQuadVert(st, 0, args), 1, args),
                             2, args)
    IN  WriteQuadVert(WriteQuadVert(WriteQuadVert(tri, 2, args), 1, args),
                      3, args)

\* writeQuad(remainder...): corners 0, 1, 2, 3 in turn.
WriteQuad(st, args) ==
    WriteQuadVert(WriteQuadVert(WriteQuadVert(WriteQuadVert(st, 0, args),
                                              1, args), 2, args), 3, args)

\* A writeArray that takes count for a byte count.
WriteArray_CountBytes(st, array, count) ==
    [ptr |-> SkTAddOffset(st.ptr, count),
     mem |-> Memcpy(st.mem, st.ptr, Flatten(array), count)]

\* writeArray(const T* array, int count): one memcpy of count * sizeof(T).
\* The product is a size_t and SkTAddOffset takes a ptrdiff_t: for a negative
\* count the two conversions give back the negative product, which is what
\* the cursor moves by.
WriteArray(st, array, count) ==
    LET n == count * Sizeof(array[1])
    IN  [ptr |-> SkTAddOffset(st.ptr, n),
         mem |-> Memcpy(st.mem, st.ptr, Flatten(array), n)]

(***************************************************************************)
(* GrVertexWriter: construction and operations.                            *)
(***************************************************************************)
\* GrVertexWriter(void* ptr) on memory the caller owns, which holds one of
\* contents; the caller has declared no other writer object yet.
WriterInitOn(starts, contents) ==
    /\ fPtr \in starts
    /\ mem \in contents
    /\ others = [w \in OtherWriters |-> NoObject]
    /\ wStart = fPtr
    /\ wLast = [op |-> "GrVertexWriter", args |-> <<>>, count |-> 0]
    /\ wPlain = TRUE
    /\ wSum = 0

\* The same on memory nothing has been written to.
WriterInit(starts) == WriterInitOn(starts, {ZeroedMem})

\* The caller's contract: the destination holds every byte a call writes.
\* The memory the caller owns begins RewindRoom bytes before the address the
\* writer was constructed on.
InBounds(st) == st.ptr >= wStart - RewindRoom /\ st.ptr <= MemSize + 1

\* No call so far had undefined behaviour; what the program does after such
\* a call is not modelled.
Defined == ~(wLast.op = "writeArray" /\ wLast.count < 0)

IsPlain(arg) == arg.kind \in {"pod", "array"}

\* sizeof of a plain argument: sizeof(T), or N * sizeof(T) for T[N].
SizeofArg(arg) == Len(arg.elems) * Sizeof(arg.elems[1])

RECURSIVE SumSizes(_)
SumSizes(args) ==
    IF args = <<>> THEN 0 ELSE SizeofArg(Head(args)) + SumSizes(Tail(args))

\* History of the sizes requested, kept while every field is plain.
Requested(args) ==
    /\ wPlain' = (wPlain /\ \A i \in 1..Len(args) : IsPlain(args[i]))
    /\ wSum' = IF wPlain' THEN wSum + SumSizes(args) ELSE 0

\* vertices.write(A, B, C, ...)
write(args) ==
    LET r == WriteArgs([ptr |-> fPtr, mem |-> mem], args)
    IN  /\ InBounds(r)
        /\ fPtr' = r.ptr
        /\ mem' = r.mem
        /\ wLast' = [op |-> "write", args |-> args, count |-> 0]
        /\ Requested(args)
        /\ UNCHANGED <<others, wStart, encVars>>

\* vertices.writeArray(array, count), count <= the array's length. With a
\* negative count the memcpy has undefined behaviour.
writeArray(array, count) ==
    LET r == WriteArray([ptr |-> fPtr, mem |-> mem], array, count)
    IN  /\ InBounds(r)
        /\ fPtr' = r.ptr
        /\ IF count < 0
              THEN mem' \in MemcpyOverrun(mem, fPtr, Flatten(array))
              ELSE mem' = r.mem
        /\ wLast' = [op |-> "writeArray", args |-> <<FixedArray(array)>>,
                     count |-> count]
        /\ wPlain' = FALSE
        /\ wSum' = 0
        /\ UNCHANGED <<others, wStart, encVars>>

\* vertices.writeQuad(A, B, C, ...)
writeQuad(args) ==
    LET r == WriteQuad([ptr |-> fPtr, mem |-> mem], args)
    IN  /\ InBounds(r)
        /\ fPtr' = r.ptr
        /\ mem' = r.mem
        /\ wLast' = [op |-> "writeQuad", args |-> args, count |-> 0]
        /\ wPlain' = FALSE
        /\ wSum' = 0
        /\ UNCHANGED <<others, wStart, encVars>>

\* vertices.fill(val, repeatCount)
fill(val, repeatCount) ==
    LET r == Fill([ptr |-> fPtr, mem |-> mem], val, 0, repeatCount)
    IN  /\ InBounds(r)
        /\ fPtr' = r.ptr
        /\ mem' = r.mem
        /\ wLast' = [op |-> "fill", args |-> <<val>>, count |-> repeatCount]
        /\ wPlain' = FALSE
        /\ wSum' = 0
        /\ UNCHANGED <<others, wStart, encVars>>

\* vertices.writeRaw(data, size), size <= the length of data.
writeRaw(data, size) ==
    LET r == WriteRaw([ptr |-> fPtr, mem |-> mem], data, size)
    IN  /\ InBounds(r)
        /\ fPtr' = r.ptr
        /\ mem' = r.mem
        /\ wLast' = [op |-> "writeRaw", args |-> <<Pod(data)>>, count |-> size]
        /\ wPlain' = FALSE
        /\ wSum' = 0
        /\ UNCHANGED <<others, wStart, encVars>>

\* The first name that holds no writer object (0: every name holds one).
FreeWriter ==
    IF \A w \in OtherWriters : others[w] # NoObject THEN 0
    ELSE CHOOSE w \in OtherWriters :
             /\ others[w] = NoObject
             /\ \A v \in OtherWriters : others[v] = NoObject => w <= v

\* GrVertexWriter w = vertices.makeOffset(offsetInBytes): a new writer
\* object; the method is const.
makeOffset(offsetInBytes) ==
    LET ptr == MakeOffset(fPtr, offsetInBytes)
    IN  /\ FreeWriter # 0
        /\ InBounds([ptr |-> ptr, mem |-> mem])
        /\ others' = [others EXCEPT ![FreeWriter] = ptr]
        /\ wLast' = [op |-> "makeOffset", args |-> <<>>,
                     count |-> offsetInBytes]
        /\ UNCHANGED <<fPtr, mem, wStart, wPlain, wSum, encVars>>

\* The writer objects by name: 0 is the writer of fPtr.
Writers == {0} \cup OtherWriters

\* The cursors of the writer objects, by name.
Ptrs == [w \in Writers |-> IF w = 0 THEN fPtr ELSE others[w]]

\* A move assignment that copies and leaves the source as it was.
MoveAssign_Copies(ptrs, this, that) == [ptrs EXCEPT ![this] = ptrs[that]]

\* operator=(GrVertexWriter&& that): fPtr = that.fPtr; that.fPtr = nullptr.
MoveAssign(ptrs, this, that) ==
    LET assigned == [ptrs EXCEPT ![this] = ptrs[that]]
    IN  [assigned EXCEPT ![that] = Nullptr]

\* The writer objects take the cursors ptrs; op(this, that) did it.
Moved(ptrs, op, this, that) ==
    /\ fPtr' = ptrs[0]
    /\ others' = [w \in OtherWriters |-> ptrs[w]]
    /\ wLast' = [op |-> op, args |-> <<Pod(<<this>>), Pod(<<that>>)>>,
                 count |-> 0]
    /\ UNCHANGED <<mem, wStart, wPlain, wSum, encVars>>

\* GrVertexWriter w(std::move(that)): a new object, assigned from that.
moveConstruct(that) ==
    /\ FreeWriter # 0
    /\ Ptrs[that] # NoObject
    /\ Moved(MoveAssign(Ptrs, FreeWriter, that), "GrVertexWriter&&",
             FreeWriter, that)

\* this = std::move(that), on two objects or on one.
moveAssign(this, that) ==
    /\ Ptrs[this] # NoObject
    /\ Ptrs[that] # NoObject
    /\ Moved(MoveAssign(Ptrs, this, that), "operator=", this, that)

\* Moves among the writer objects.
MoveNext ==
    \/ \E that \in Writers : moveConstruct(that)
    \/ \E this \in Writers : \E that \in Writers : moveAssign(this, that)

\* Plain values, fixed arrays and writeArray.
WriterNext ==
    \/ \E args \in ArgLists(PlainArgs) : write(args)
    \/ \E count \in 0..MaxCount :
          writeArray(SubSeq(U16Array, 1, MaxCount), count)

\* Color records, alone and after a plain value.
ColorNext ==
    \E args \in ArgLists(ColorArgs \cup {Pod(<<33, 34>>)}) : write(args)

\* Quads.
QuadNext == \E args \in QuadArgLists : writeQuad(args)

\* Every operation that moves a cursor or derives one, with counts and
\* offsets of either sign.
CursorNext ==
    \/ \E args \in {<<>>, <<Pod(<<17>>)>>, <<Skip(<<33, 34>>), Pod(<<17>>)>>} :
          Defined /\ write(args)
    \/ \E count \in {-1, 0, MaxCount} :
          Defined /\ writeArray(SubSeq(U16Array, 1, MaxCount), count)
    \/ \E repeatCount \in {-1, 0, MaxCount} :
          Defined /\ fill(Pod(<<33, 34>>), repeatCount)
    \/ \E size \in {0, 3} :
          Defined /\ writeRaw(<<97, 98, 99>>, size)
    \/ Defined /\ writeQuad(<<TriStrip(<<0>>, <<0>>, <<10>>, <<20>>)>>)
    \/ \E offsetInBytes \in {-2, 1} :
          Defined /\ FreeWriter = 1 /\ makeOffset(offsetInBytes)

\* Conditional values and skip markers, among plain values.
MarkerNext == \E args \in ArgLists(MarkerArgs) : write(args)

(***************************************************************************)
(* Specifications.                                                         *)
(***************************************************************************)
\* The encoder, beside a writer left as constructed.
EncoderSpecInit == EncoderInit(TargetRects) /\ WriterInit({1})

EncoderSpec == EncoderSpecInit /\ [][EncoderNext]_vars

\* Two encoders, beside a writer left as constructed.
PairSpecInit == EncoderInit({Rect(0, 0, 100, 100)}) /\ WriterInit({1})

PairSpec == PairSpecInit /\ [][PairNext]_vars

\* The vertex writer on plain fields, beside an encoder left as constructed.
WriterSpecInit ==
    EncoderInit({Rect(0, 0, 100, 100)}) /\ WriterInit(PlainStarts)

WriterSpec == WriterSpecInit /\ [][WriterNext]_vars

\* The vertex writer on color records.
ColorSpecInit ==
    EncoderInit({Rect(0, 0, 100, 100)}) /\ WriterInit(ColorStarts)

ColorSpec == ColorSpecInit /\ [][ColorNext]_vars

\* The vertex writer on conditional values and skip markers, over memory an
\* earlier pass has used.
MarkerSpecInit ==
    EncoderInit({Rect(0, 0, 100, 100)}) /\ WriterInitOn(PlainStarts, {StaleMem})

MarkerSpec == MarkerSpecInit /\ [][MarkerNext]_vars

\* The vertex writer under every operation that moves or derives a cursor.
CursorSpecInit ==
    /\ EncoderInit({Rect(0, 0, 100, 100)})
    /\ WriterInitOn({MemSize - PlainRoom + 1}, {StaleMem})

CursorSpec == CursorSpecInit /\ [][CursorNext]_vars

\* One writer constructed on an address, and the moves from it.
MoveSpecInit ==
    EncoderInit({Rect(0, 0, 100, 100)}) /\ WriterInit(PlainStarts \cup ColorStarts)

MoveSpec == MoveSpecInit /\ [][MoveNext]_vars

\* The vertex writer on quads, over memory an earlier pass has used.
QuadSpecInit ==
    EncoderInit({Rect(0, 0, 100, 100)}) /\ WriterInitOn(QuadStarts, {StaleMem})

QuadSpec == QuadSpecInit /\ [][QuadNext]_vars

(***************************************************************************)
(* Properties of the encoder.                                              *)
(***************************************************************************)
DrawOps ==
    {"drawPrimitives", "drawPrimitivesInstanced", "drawPrimitivesIndirect",
     "drawIndexedPrimitives", "drawIndexedPrimitivesInstanced",
     "drawIndexedPrimitivesIndirect"}

UncachedOps ==
    {"setLabel", "pushDebugGroup", "popDebugGroup", "insertDebugSignpost",
     "setFrontFacingWinding", "setViewport", "setStencilReferenceValue",
     "setStencilFrontBackReferenceValues", "setVertexBytes",
     "setFragmentBytes"} \cup DrawOps

\* This step is a call of op on session s.
CallStep(s, op) == lastCall'.session = s /\ lastCall'.op = op

\* This step hands exactly the native call c to session s's encoder, after
\* everything it has received so far.
IssuedNow(s, c) == mtlCalls'[s] = Append(mtlCalls[s], c) /\ issued' = <<c>>

\* This step hands no native call to session s's encoder.
SkippedNow(s) == mtlCalls'[s] = mtlCalls[s] /\ issued' = <<>>

\* C1: at every draw call, for each of the four cached states the caller has
\* set at least once, the native encoder holds the value of the caller's most
\* recent set call, whatever state the native encoder started in.
C1_DrawSeesLastSetValues ==
    \A s \in Sessions :
        (lastCall.session = s /\ lastCall.op \in DrawOps) =>
            /\ lastSet[s].pso # <<>> => mtlState[s].pso = lastSet[s].pso[1]
            /\ lastSet[s].dss # <<>> => mtlState[s].dss = lastSet[s].dss[1]
            /\ lastSet[s].fill # <<>> => mtlState[s].fill = lastSet[s].fill[1]
            /\ lastSet[s].scissor # <<>> =>
                   mtlState[s].scissor = lastSet[s].scissor[1]

\* The expected outcome of a set call of value v when the previous set call
\* of the same kind had the value in prev (<<>>: there was none): a native
\* call exactly when v is the first value or differs from the previous one.
ForwardedIffChanged(s, op, prev, v) ==
    IF prev = <<>> \/ prev[1] # v
      THEN IssuedNow(s, NativeCall(op, <<v>>))
      ELSE SkippedNow(s)

\* C2: for pipeline object, depth/stencil object and fill mode, a set call
\* issues the native call exactly when its value differs from that of the
\* immediately preceding set call of the same kind; the first call of a kind
\* issues it (the same value twice in a row issues one native call, A then B
\* issues two).
C2_ForwardedIffDiffersFromPrevious ==
    [][\A s \in Sessions :
          /\ CallStep(s, "setRenderPipelineState") =>
                ForwardedIffChanged(s, "setRenderPipelineState",
                                    lastSet[s].pso, lastCall'.args[1])
          /\ CallStep(s, "setDepthStencilState") =>
                ForwardedIffChanged(s, "setDepthStencilState",
                                    lastSet[s].dss, lastCall'.args[1])
          /\ CallStep(s, "setTriangleFillMode") =>
                ForwardedIffChanged(s, "setTriangleFillMode",
                                    lastSet[s].fill, lastCall'.args[1])]_vars

\* The number of fields in which two scissor argument lists differ.
FieldsDiffering(a, b) == Cardinality({i \in 1..4 : a[i] # b[i]})

\* C3: setScissorRect compares field by field: a call equal in x, y, width
\* and height to the previous setScissorRect call on the session issues no
\* native call, a call that differs from it in any field (a single one is
\* enough) issues one; and (0,0,100,100) as the first call issues one.
C3_ScissorComparedFieldwise ==
    [][\A s \in Sessions :
          CallStep(s, "setScissorRect") =>
            LET cur == lastCall'.args
                c   == NativeCall("setScissorRect", cur)
            IN  IF lastSet[s].scissor = <<>>
                  THEN cur = <<0, 0, 100, 100>> => IssuedNow(s, c)
                  ELSE LET prev == RectArgs(lastSet[s].scissor[1])
                       IN  /\ FieldsDiffering(prev, cur) = 0 => SkippedNow(s)
                           /\ FieldsDiffering(prev, cur) >= 1 => IssuedNow(s, c)
      ]_vars

\* C3 witness: (0,0,100,100) was set twice in a row; the first call reached
\* the native encoder and the second did not.
C3_Witness ==
    \E s \in Sessions :
        /\ lastCall = [session |-> s, op |-> "setScissorRect",
                       args |-> <<0, 0, 100, 100>>]
        /\ issued = <<>>
        /\ mtlCalls[s] = <<NativeCall("setScissorRect", <<0, 0, 100, 100>>)>>

\* C4: on a new session the first call of each cached setter issues the
\* native call, for every value the caller can pass.
C4_FirstSetAlwaysForwards ==
    [][\A s \in Sessions :
          /\ (CallStep(s, "setRenderPipelineState") /\ lastSet[s].pso = <<>>)
                => IssuedNow(s, NativeCall(lastCall'.op, lastCall'.args))
          /\ (CallStep(s, "setDepthStencilState") /\ lastSet[s].dss = <<>>)
                => IssuedNow(s, NativeCall(lastCall'.op, lastCall'.args))
          /\ (CallStep(s, "setTriangleFillMode") /\ lastSet[s].fill = <<>>)
                => IssuedNow(s, NativeCall(lastCall'.op, lastCall'.args))
          /\ (CallStep(s, "setScissorRect") /\ lastSet[s].scissor = <<>>)
                => IssuedNow(s, NativeCall(lastCall'.op, lastCall'.args))
      ]_vars

\* C5: once endEncoding has been called on a session, no further operation
\* on it issues a call on the native encoder.
C5_NoNativeCallAfterEnd ==
    [][\A s \in Sessions : mtlEnded[s] => mtlCalls'[s] = mtlCalls[s]]_vars

\* C6: every call of an uncached operation issues exactly one native call,
\* of the same operation with the same arguments, placed after every native
\* call issued before it, whatever came before.
C6_UncachedForwardedOnceInOrder ==
    [][\A s \in Sessions :
          (lastCall'.session = s /\ lastCall'.op \in UncachedOps) =>
              IssuedNow(s, NativeCall(lastCall'.op, lastCall'.args))]_vars

\* C6 witness: setViewport was called twice in a row with the same viewport
\* and the native encoder received both calls.
C6_Witness ==
    \E s \in Sessions :
        /\ lastCall.session = s
        /\ lastCall.op = "setViewport"
        /\ Len(mtlCalls[s]) = 2
        /\ mtlCalls[s][1] = NativeCall("setViewport", lastCall.args)
        /\ mtlCalls[s][2] = mtlCalls[s][1]
        /\ issued = <<mtlCalls[s][2]>>

\* The four cache slots of session s, and those after this step.
Cache(s) ==
    [pso |-> fCurrentRenderPipelineState[s], dss |-> fCurrentDepthStencilState[s],
     fill |-> fCurrentTriangleFillMode[s], scissor |-> fCurrentScissorRect[s]]

CacheNext(s) ==
    [pso |-> fCurrentRenderPipelineState'[s],
     dss |-> fCurrentDepthStencilState'[s],
     fill |-> fCurrentTriangleFillMode'[s], scissor |-> fCurrentScissorRect'[s]]

\* The initial values of the slots.
InitialCache ==
    [pso |-> Nil, dss |-> Nil, fill |-> kUnsetFillMode, scissor |-> ZeroRect]

\* The cached setters, the slot each one owns, and the argument list of the
\* native call that carries value v of a slot.
SetterOps ==
    {"setRenderPipelineState", "setDepthStencilState", "setTriangleFillMode",
     "setScissorRect"}

SlotOf(op) ==
    CASE op = "setRenderPipelineState" -> "pso"
      [] op = "setDepthStencilState"   -> "dss"
      [] op = "setTriangleFillMode"    -> "fill"
      [] op = "setScissorRect"         -> "scissor"

Slots == {"pso", "dss", "fill", "scissor"}

ArgsOf(op, v) == IF op = "setScissorRect" THEN RectArgs(v) ELSE <<v>>

\* The value a set call of op on session s is compared with, from the calls
\* made on s alone: that of the previous set call of the kind on s, or the
\* initial value.
PreviousOn(s, op) ==
    IF lastSet[s][SlotOf(op)] = <<>> THEN InitialCache[SlotOf(op)]
    ELSE lastSet[s][SlotOf(op)][1]

\* C16: cached state is per session: with two sessions no operation on one
\* changes the cached values of the other, and whether a set call issues a
\* native call depends only on the earlier calls on the same session.
C16_CachePerSession ==
    [][\A s \in Sessions :
          lastCall'.session = s =>
            /\ \A t \in Sessions \ {s} :
                  /\ CacheNext(t) = Cache(t)
                  /\ mtlCalls'[t] = mtlCalls[t]
            /\ \A op \in SetterOps :
                  lastCall'.op = op =>
                    IF lastCall'.args = ArgsOf(op, PreviousOn(s, op))
                      THEN SkippedNow(s)
                      ELSE IssuedNow(s, NativeCall(op, lastCall'.args))
      ]_vars

\* C16 witness: pipeline 1 was set on session 1 and then on session 2, and
\* each native encoder received the call.
C16_Witness ==
    /\ lastCall = [session |-> 2, op |-> "setRenderPipelineState",
                   args |-> <<1>>]
    /\ issued = <<NativeCall("setRenderPipelineState", <<1>>)>>
    /\ mtlCalls[1] = issued
    /\ mtlCalls[2] = issued
    /\ fCurrentRenderPipelineState = [s \in Sessions |-> 1]

\* C17: the session holds one retained reference to the native encoder from
\* Make through its Open lifetime, and the reference is released when
\* endEncoding is called.
C17_ReleasedAtEndEncoding ==
    \A s \in Sessions :
        fCommandEncoder[s] = (IF mtlEnded[s] THEN 0 ELSE 1)

\* The value of the last native call of op in calls, init if there is none.
RECURSIVE LastNative(_, _, _)
LastNative(calls, op, init) ==
    IF calls = <<>> THEN init
    ELSE LET c == calls[Len(calls)]
         IN  IF c.op = op
               THEN (IF op = "setScissorRect"
                       THEN Rect(c.args[1], c.args[2], c.args[3], c.args[4])
                       ELSE c.args[1])
               ELSE LastNative(SubSeq(calls, 1, Len(calls) - 1), op, init)

\* C18: in every reachable state each cache slot holds the value of the
\* most recent native state-change call of its kind issued by the session,
\* or its initial value (nil, nil, -1, {0,0,0,0}) when none was issued; the
\* cache changes in the step of the native call and never without one.
C18_CacheIsLastNativeValue ==
    /\ [](\A s \in Sessions : \A op \in SetterOps :
            Cache(s)[SlotOf(op)]
                = LastNative(mtlCalls[s], op, InitialCache[SlotOf(op)]))
    /\ [][\A s \in Sessions : \A op \in SetterOps :
             CacheNext(s)[SlotOf(op)] # Cache(s)[SlotOf(op)] =>
                 IssuedNow(s, NativeCall(op,
                                         ArgsOf(op, CacheNext(s)[SlotOf(op)])))
         ]_vars

\* C18 witness: pipeline 1 and then pipeline 2 reached the native encoder;
\* the pipeline slot holds 2 and the other slots their initial values.
C18_Witness ==
    \E s \in Sessions :
        /\ mtlCalls[s] = <<NativeCall("setRenderPipelineState", <<1>>),
                           NativeCall("setRenderPipelineState", <<2>>)>>
        /\ Cache(s) = [InitialCache EXCEPT !.pso = 2]

\* C19: a cached setter changes at most its own slot, and every uncached
\* operation (annotations, winding, viewport, stencil reference values, byte
\* uploads, draws, endEncoding) changes none; hence calls interleaved
\* between two set calls of one kind never change whether the second one
\* issues a native call.
C19_SettersOwnOneSlot ==
    [][\A s \in Sessions :
          lastCall'.session = s =>
            /\ \A op \in SetterOps :
                  lastCall'.op = op =>
                    /\ \A k \in Slots \ {SlotOf(op)} :
                          CacheNext(s)[k] = Cache(s)[k]
                    /\ lastSet[s][SlotOf(op)] # <<>> =>
                          IF lastCall'.args = ArgsOf(op, lastSet[s][SlotOf(op)][1])
                            THEN SkippedNow(s)
                            ELSE IssuedNow(s, NativeCall(op, lastCall'.args))
            /\ lastCall'.op \in UncachedOps \cup {"endEncoding"} =>
                  CacheNext(s) = Cache(s)
      ]_vars

\* C19 witness: fill mode 0 was set, a draw followed, and fill mode 0 set
\* again issued no native call.
C19_Witness ==
    \E s \in Sessions :
        /\ lastCall = [session |-> s, op |-> "setTriangleFillMode",
                       args |-> <<0>>]
        /\ issued = <<>>
        /\ Len(mtlCalls[s]) = 2
        /\ mtlCalls[s][1] = NativeCall("setTriangleFillMode", <<0>>)
        /\ mtlCalls[s][2].op \in DrawOps

(***************************************************************************)
(* Properties of the vertex writer.                                        *)
(***************************************************************************)
\* This step is a call of op on the writer.
WriterStep(op) == wLast'.op = op

\* Memory m with the bytes bs laid down from address p on.
Overlay(m, p, bs) ==
    [a \in DOMAIN m |->
        IF a >= p /\ a < p + Len(bs) THEN bs[a - p + 1] ELSE m[a]]

\* C7: after any sequence of plain-value and fixed-array writes, in one
\* variadic call or split over several, the cursor is the starting address
\* plus the sum of the sizes of the fields written.
C7_CursorIsStartPlusSizes == wPlain => fPtr = wStart + wSum

\* C7 witness: two fields of different sizes written by one variadic call,
\* after an earlier call had written other fields.
C7_Witness ==
    /\ wPlain
    /\ wLast.op = "write"
    /\ Len(wLast.args) = 2
    /\ SizeofArg(wLast.args[1]) # SizeofArg(wLast.args[2])
    /\ wSum > SumSizes(wLast.args)
    /\ fPtr = wStart + wSum

\* The offset of field k of args from the start of the call.
FieldOffset(args, k) == SumSizes(SubSeq(args, 1, k - 1))

\* C8: write(v1, ..., vn) from address p puts the bytes of vk at exactly
\* [p + s1 + ... + s(k-1), p + s1 + ... + sk), in request order and without
\* padding, and changes no byte outside [p, p + s1 + ... + sn).
C8_FieldsContiguousInOrder ==
    [][WriterStep("write") =>
          LET args == wLast'.args
              p    == fPtr
          IN  /\ \A k \in 1..Len(args) :
                    \A j \in 1..SizeofArg(args[k]) :
                        mem'[p + FieldOffset(args, k) + j - 1]
                            = Flatten(args[k].elems)[j]
              /\ \A a \in Addrs :
                    (a < p \/ a >= p + SumSizes(args)) => mem'[a] = mem[a]
      ]_vars

\* C8 witness: write(uint16_t, float) ran after an earlier call; the six
\* bytes before the cursor are the two values, back to back.
C8_Witness ==
    /\ wLast.op = "write"
    /\ Len(wLast.args) = 2
    /\ wLast.args[1] = Pod(<<33, 34>>)
    /\ wLast.args[2] = Pod(<<49, 50, 51, 52>>)
    /\ fPtr - 6 > wStart
    /\ <<mem[fPtr - 6], mem[fPtr - 5]>> = <<33, 34>>
    /\ <<mem[fPtr - 4], mem[fPtr - 3], mem[fPtr - 2], mem[fPtr - 1]>>
          = <<49, 50, 51, 52>>

\* C9: writeArray(a, n) leaves memory and cursor as n scalar writes of
\* a[0], ..., a[n-1] would: the n * sizeof(element) bytes from the original
\* cursor are a copy of a, and the cursor has advanced by n * sizeof(element).
C9_WriteArrayIsSequentialWrites ==
    [][WriterStep("writeArray") =>
          LET a    == wLast'.args[1].elems
              n    == wLast'.count
              size == n * Sizeof(a[1])
              seq  == WriteArgs([ptr |-> fPtr, mem |-> mem],
                                [i \in 1..n |-> Pod(a[i])])
          IN  /\ fPtr' = seq.ptr
              /\ mem' = seq.mem
              /\ fPtr' = fPtr + size
              /\ \A j \in 1..size : mem'[fPtr + j - 1] = Flatten(a)[j]
      ]_vars

\* C9 witness: writeArray copied two elements; they sit before the cursor.
C9_Witness ==
    /\ wLast.op = "writeArray"
    /\ wLast.count = 2
    /\ fPtr - 4 >= wStart
    /\ <<mem[fPtr - 4], mem[fPtr - 3], mem[fPtr - 2], mem[fPtr - 1]>>
          = U16Array[1] \o U16Array[2]

\* The bytes a field is to occupy: a narrow color is its first word, a wide
\* color its four words in order, a plain field its object representation.
FieldBytes(arg) ==
    IF arg.kind = "color" /\ ~arg.flag
      THEN arg.elems[1]
      ELSE Flatten(arg.elems)

RECURSIVE RecordBytes(_)
RecordBytes(args) ==
    IF args = <<>> THEN <<>>
    ELSE FieldBytes(Head(args)) \o RecordBytes(Tail(args))

\* C10: a color record puts its first word at the cursor; a narrow record
\* advances the cursor by one word and writes nothing else, a wide record
\* also writes words 1, 2 and 3 in order and advances by four words; narrow
\* and wide records may be mixed in one sequence of writes.
C10_ColorIsOneOrFourWords ==
    [][WriterStep("write") =>
          LET args == wLast'.args
          IN  /\ mem' = Overlay(mem, fPtr, RecordBytes(args))
              /\ fPtr' = fPtr + Len(RecordBytes(args))
              /\ \A c \in ColorArgs :
                    args = <<c>> =>
                        fPtr' - fPtr = (IF c.flag THEN 4 ELSE 1)
                                          * Sizeof(c.elems[1])
      ]_vars

\* C10 witness: one call wrote a narrow and then a wide color record.
C10_Witness ==
    /\ wLast.op = "write"
    /\ Len(wLast.args) = 2
    /\ wLast.args[1] = VertexColor(ColorWords, FALSE)
    /\ wLast.args[2] = VertexColor(ColorWords, TRUE)
    /\ fPtr = wStart + 5 * Sizeof(ColorWords[1])
    /\ mem[wStart] = ColorWords[1][1]
    /\ mem[fPtr - 1] = ColorWords[4][4]

\* The bytes a field puts into memory, and how far it moves the cursor: a
\* conditional with a false condition puts none and moves it by nothing, a
\* skip marker puts none and moves it by the size of its type.
Written(arg) ==
    CASE arg.kind = "skip" -> <<>>
      [] arg.kind = "cond" -> IF arg.flag THEN arg.elems[1] ELSE <<>>
      [] OTHER             -> FieldBytes(arg)

Extent(arg) ==
    IF arg.kind = "skip" THEN Sizeof(arg.elems[1]) ELSE Len(Written(arg))

RECURSIVE SumExtents(_)
SumExtents(args) ==
    IF args = <<>> THEN 0 ELSE Extent(Head(args)) + SumExtents(Tail(args))

\* After a step from cursor p, field k of args sits at the offset given by
\* the extents of the fields before it, every byte no field put is what it
\* was, and the cursor is p plus the extents.
LaidOut(p, args) ==
    LET off(k) == SumExtents(SubSeq(args, 1, k - 1))
    IN  /\ \A k \in 1..Len(args) :
              \A j \in 1..Len(Written(args[k])) :
                  mem'[p + off(k) + j - 1] = Written(args[k])[j]
        /\ \A a \in Addrs :
              (\A k \in 1..Len(args) :
                    a < p + off(k) \/ a >= p + off(k) + Len(Written(args[k])))
                 => mem'[a] = mem[a]
        /\ fPtr' = p + SumExtents(args)

\* A conditional as the unconditional write it stands for: the value when
\* the condition is true, nothing when it is false.
RECURSIVE Unconditional(_)
Unconditional(args) ==
    IF args = <<>> THEN <<>>
    ELSE LET h == Head(args)
         IN  (IF h.kind # "cond" THEN <<h>>
              ELSE IF h.flag THEN <<Pod(h.elems[1])>> ELSE <<>>)
                 \o Unconditional(Tail(args))

\* C11: a conditional write If(c, v) with c false moves the cursor by zero
\* bytes and changes no byte, and the arguments after it in the same call
\* are written from the unchanged cursor; with c true memory and cursor end
\* as after an unconditional write of v.
C11_ConditionalWritesIffTrue ==
    [][WriterStep("write") =>
          LET args  == wLast'.args
              plain == WriteArgs([ptr |-> fPtr, mem |-> mem],
                                 Unconditional(args))
          IN  /\ LaidOut(fPtr, args)
              /\ fPtr' = plain.ptr
              /\ mem' = plain.mem
              /\ args = <<If(FALSE, <<49, 50, 51, 52>>)>> =>
                    (fPtr' = fPtr /\ mem' = mem)
      ]_vars

\* C11 witness: write(If(false, float), uint8_t) ran after an earlier call:
\* the cursor moved by the one byte of the second argument, which sits where
\* the cursor was.
C11_Witness ==
    /\ wLast.op = "write"
    /\ wLast.args = <<If(FALSE, <<49, 50, 51, 52>>), Pod(<<17>>)>>
    /\ fPtr - 1 > wStart
    /\ mem[fPtr - 1] = 17
    /\ mem[fPtr] = StaleMem[fPtr]

\* C14: a Skip<T> marker moves the cursor by sizeof(T) and leaves every
\* byte unchanged, the sizeof(T) bytes it passes included; the arguments
\* after it are written behind the reserved span.
C14_SkipAdvancesWithoutWriting ==
    [][WriterStep("write") =>
          LET args == wLast'.args
          IN  /\ LaidOut(fPtr, args)
              /\ \A k \in 1..Len(args) :
                    args[k].kind = "skip" =>
                       LET lo == fPtr + SumExtents(SubSeq(args, 1, k - 1))
                       IN  \A a \in lo..(lo + Sizeof(args[k].elems[1]) - 1) :
                              mem'[a] = mem[a]
              /\ args = <<Skip(<<33, 34>>)>> =>
                    (fPtr' = fPtr + 2 /\ mem' = mem)
      ]_vars

\* C14 witness: write(Skip<uint16_t>, uint8_t) ran: the byte sits two bytes
\* behind the old cursor and the two bytes before it hold what they held.
C14_Witness ==
    /\ wLast.op = "write"
    /\ wLast.args = <<Skip(<<33, 34>>), Pod(<<17>>)>>
    /\ mem[fPtr - 1] = 17
    /\ mem[fPtr - 2] = StaleMem[fPtr - 2]
    /\ mem[fPtr - 3] = StaleMem[fPtr - 3]

\* The coordinates record c (0..3) takes from a rectangle {l, t, r, b}, as
\* positions in <<l, t, r, b>>: under strip order (l,t), (l,b), (r,t), (r,b),
\* under fan order (l,t), (l,b), (r,b), (r,t).
StripOrder == << <<1, 2>>, <<1, 4>>, <<3, 2>>, <<3, 4>> >>
FanOrder == << <<1, 2>>, <<1, 4>>, <<3, 4>>, <<3, 2>> >>

\* The bytes argument arg is to put into record c of a quad.
QuadWritten(arg, c) ==
    CASE arg.kind = "tristrip" ->
             arg.elems[StripOrder[c + 1][1]] \o arg.elems[StripOrder[c + 1][2]]
      [] arg.kind = "trifan" ->
             arg.elems[FanOrder[c + 1][1]] \o arg.elems[FanOrder[c + 1][2]]
      [] arg.kind = "quad" -> arg.elems[c + 1]
      [] OTHER -> Written(arg)

QuadExtent(arg) ==
    IF arg.kind \in CornerKinds THEN Len(QuadWritten(arg, 0)) ELSE Extent(arg)

RECURSIVE RecordSize(_)
RecordSize(args) ==
    IF args = <<>> THEN 0 ELSE QuadExtent(Head(args)) + RecordSize(Tail(args))

\* The bytes of memory m from address p up to, not including, address q.
Bytes(m, p, q) == [j \in 1..(q - p) |-> m[p + j - 1]]

\* C12: in writeQuad, record k = 0, 1, 2, 3 receives for a TriStrip{l,t,r,b}
\* the pairs (l,t), (l,b), (r,t), (r,b), for a TriFan{l,t,r,b} the pairs
\* (l,t), (l,b), (r,b), (r,t) and for a GrQuad the quad's point k; the
\* rectangle (0, 0, 10, 20) yields (0,0), (0,20), (10,0), (10,20) under strip
\* order and (0,0), (0,20), (10,20), (10,0) under fan order.
C12_CornersInStripOrFanOrder ==
    [][WriterStep("writeQuad") =>
          LET args == wLast'.args
              size == RecordSize(args)
              at(c, k) == fPtr + c * size + RecordSize(SubSeq(args, 1, k - 1))
          IN  /\ \A c \in 0..3 : \A k \in 1..Len(args) :
                    args[k].kind \in CornerKinds =>
                       Bytes(mem', at(c, k), at(c, k) + QuadExtent(args[k]))
                           = QuadWritten(args[k], c)
              /\ args = <<TriStrip(<<0>>, <<0>>, <<10>>, <<20>>)>> =>
                    Bytes(mem', fPtr, fPtr') = <<0, 0, 0, 20, 10, 0, 10, 20>>
              /\ args = <<TriFan(<<0>>, <<0>>, <<10>>, <<20>>)>> =>
                    Bytes(mem', fPtr, fPtr') = <<0, 0, 0, 20, 10, 20, 10, 0>>
      ]_vars

\* C12 witness: the rectangle (0, 0, 10, 20) was written under strip order
\* and then under fan order; the sixteen bytes before the cursor are the
\* eight pairs.
C12_Witness ==
    /\ wLast.op = "writeQuad"
    /\ wLast.args = <<TriFan(<<0>>, <<0>>, <<10>>, <<20>>)>>
    /\ fPtr - 16 >= wStart
    /\ Bytes(mem, fPtr - 16, fPtr)
          = <<0, 0, 0, 20, 10, 0, 10, 20>> \o <<0, 0, 0, 20, 10, 20, 10, 0>>

\* C13: one writeQuad call emits exactly four records back to back, each
\* with the arguments in the same order and of the same size; an argument
\* that is no TriStrip, TriFan or GrQuad (a color record, a conditional, a
\* skip too) contributes the same bytes at the same offset in all four
\* records, and the cursor advances by four times the size of one record.
C13_FourAlikeRecords ==
    [][WriterStep("writeQuad") =>
          LET args == wLast'.args
              size == RecordSize(args)
              at(c, k) == fPtr + c * size + RecordSize(SubSeq(args, 1, k - 1))
          IN  /\ fPtr' = fPtr + 4 * size
              /\ \A c \in 0..3 : \A k \in 1..Len(args) :
                    LET got == Bytes(mem', at(c, k), at(c, k) + QuadExtent(args[k]))
                    IN  /\ args[k].kind \notin CornerKinds \cup {"skip"} =>
                              got = Written(args[k])
                        /\ args[k].kind = "skip" =>
                              got = Bytes(mem, at(c, k),
                                          at(c, k) + QuadExtent(args[k]))
                        /\ got = Bytes(mem', at(0, k) , at(0, k) + QuadExtent(args[k]))
                              \/ args[k].kind \in CornerKinds \cup {"skip"}
              /\ \A a \in Addrs :
                    (a < fPtr \/ a >= fPtr + 4 * size) => mem'[a] = mem[a]
      ]_vars

\* C13 witness: writeQuad(If(true, uint8_t), TriFan, Skip<uint8_t>) ran:
\* four records of four bytes, each starting with the conditional's value
\* and ending with a byte the call left alone.
C13_Witness ==
    /\ wLast.op = "writeQuad"
    /\ Len(wLast.args) = 3
    /\ wLast.args[1] = If(TRUE, <<17>>)
    /\ wLast.args[3] = Skip(<<17>>)
    /\ fPtr - 16 >= wStart
    /\ \A c \in 0..3 :
          /\ mem[fPtr - 16 + 4 * c] = 17
          /\ mem[fPtr - 16 + 4 * c + 3] = StaleMem[fPtr - 16 + 4 * c + 3]

\* The operations that write through the cursor.
CursorOps == {"write", "writeArray", "fill", "writeRaw", "writeQuad"}

\* C15: the cursor advances monotonically: after a write, writeArray, fill,
\* writeRaw or writeQuad call with any arguments the signatures accept (a
\* zero or negative count of writeArray or fill included) the cursor is not
\* lower than before the call; makeOffset alone yields a cursor at a lower
\* address, and it leaves the writer it is called on unchanged.
C15_CursorNeverRewound ==
    [][/\ wLast'.op \in CursorOps => (fPtr' >= fPtr /\ others' = others)
       /\ WriterStep("makeOffset") => (fPtr' = fPtr /\ mem' = mem)]_vars

\* operator bool of writer w: it holds an object with a cursor other than
\* nullptr.
Valid(ptrs, w) == ptrs[w] # NoObject /\ ptrs[w] # Nullptr

ValidWriters(ptrs) == {w \in Writers : Valid(ptrs, w)}

\* The cursors after this step.
PtrsNext == [w \in Writers |-> IF w = 0 THEN fPtr' ELSE others'[w]]

\* This step move-constructs or move-assigns writer this from writer that.
MoveStep(this, that) ==
    /\ wLast'.op \in {"GrVertexWriter&&", "operator="}
    /\ wLast'.args = <<Pod(<<this>>), Pod(<<that>>)>>

\* After a move of b from a distinct a, b has the cursor a had and a is
\* invalid.
MoveTransfers ==
    \A a \in Writers : \A b \in Writers \ {a} :
        MoveStep(b, a) =>
            /\ PtrsNext[b] = Ptrs[a]
            /\ PtrsNext[a] = Nullptr
            /\ ~Valid(PtrsNext, a)

\* C20 as stated: after move-constructing or move-assigning b from a distinct
\* a, b's cursor is a's cursor before the move and a is invalid; so after
\* any sequence of moves from one valid writer, none of them an assignment
\* of a writer to itself, exactly one writer is valid and it holds the
\* original cursor.
C20_ExactlyOneValidAfterMoves ==
    [][/\ MoveTransfers
       /\ \A a \in Writers : \A b \in Writers \ {a} :
             (MoveStep(b, a) /\ Cardinality(ValidWriters(Ptrs)) = 1) =>
                 /\ Cardinality(ValidWriters(PtrsNext)) = 1
                 /\ \A w \in ValidWriters(PtrsNext) : PtrsNext[w] = wStart
      ]_vars

\* C20 amended: the transfer as stated; after any sequence of moves from one
\* valid writer at most one writer is valid and it holds the original
\* cursor, and exactly one is valid after a move whose source was the valid
\* writer and whose target was another writer; a writer assigned to itself
\* is invalid.
C20_AtMostOneValidAfterMoves ==
    /\ [](/\ Cardinality(ValidWriters(Ptrs)) <= 1
          /\ \A w \in ValidWriters(Ptrs) : Ptrs[w] = wStart)
    /\ [][/\ MoveTransfers
          /\ \A a \in Writers : \A b \in Writers \ {a} :
                (MoveStep(b, a) /\ Valid(Ptrs, a)) =>
                    (ValidWriters(PtrsNext) = {b} /\ PtrsNext[b] = wStart)
          /\ \A a \in Writers :
                MoveStep(a, a) =>
                    (PtrsNext[a] = Nullptr /\ ~Valid(PtrsNext, a))
         ]_vars

\* C20 witness: the cursor went from the first writer through two writers
\* constructed by moves and was assigned back: the first writer is the
\* valid one and holds the original cursor, the other two are null.
C20_Witness ==
    /\ wLast.op = "operator="
    /\ wLast.args = <<Pod(<<0>>), Pod(<<2>>)>>
    /\ fPtr = wStart
    /\ others = [w \in OtherWriters |-> Nullptr]

====
